---- MODULE Spec2Model ----
(***************************************************************************)
(* Model of elec-00/elec-00-preprocessing-key.ipynb: the EEG preprocessing *)
(* notebook.  The state is the kernel namespace of the notebook (the names *)
(* data_raw, data_filtered, data_ica, picks, ica, eog_epochs, eog_inds),   *)
(* the Raw objects those names refer to, the output file on disk, and the  *)
(* position of a top-to-bottom run in the sequence of statements.          *)
(*                                                                         *)
(* The numerics of the library are not part of the notebook.  Samples are  *)
(* therefore kept as terms: a row of samples is the row loaded for a       *)
(* channel, together with the number of bandpass filters applied to it and *)
(* the list of component sets an ICA reconstruction removed from it.  Two  *)
(* rows are equal exactly when they were produced the same way.            *)
(***************************************************************************)
EXTENDS Integers, Sequences, FiniteSets, TLC

\* ---- bounds of the model ------------------------------------------------
NumSTI == 2          \* stimulus channels of the input recording
NumEEG == 3          \* EEG channels of the input recording
MaxTimes == 2        \* largest number of samples of the input recording
MaxToggles == 1      \* channels the user clicks in one interactive plot
MaxEogInds == 2      \* components find_bads_eog returns at most
EogCandidates == 2   \* find_bads_eog returns indices below this number
MaxReruns == 2       \* times the user runs cell 29 again

\* ---- literals of the notebook -------------------------------------------
n_components == 25
BadEEG == 53
EogNum == 61

VARIABLES pc, raised, log, names, heap, data_raw, data_filtered, data_ica,
          picks, ica, eog_epochs, eog_inds, raw_file, out_file, existed

vars == <<pc, raised, log, names, heap, data_raw, data_filtered, data_ica,
          picks, ica, eog_epochs, eog_inds, raw_file, out_file, existed>>

\* ---- channels and recordings --------------------------------------------
Ch(t, n) == [type |-> t, num |-> n]

\* Channel list of the input file: stimulus channels, EEG channels (the
\* last of them EEG 053), then the one EOG channel.
FileChNames ==
  [i \in 1..(NumSTI + NumEEG + 1) |->
     IF i <= NumSTI THEN Ch("stim", i)
     ELSE IF i <= NumSTI + NumEEG THEN Ch("eeg", BadEEG - NumEEG + (i - NumSTI))
     ELSE Ch("eog", EogNum)]

Range(s) == {s[i] : i \in DOMAIN s}

\* The row of samples read from the file for channel ch.
Loaded(ch) == [src |-> ch, filt |-> 0, ica |-> <<>>]

EmptyRaw == [info |-> [ch_names |-> <<>>, bads |-> {}], n_times |-> 0, data |-> <<>>]

read_raw(file) ==
  [info |-> [ch_names |-> file.ch_names, bads |-> {}],
   n_times |-> file.n_times,
   data |-> [i \in DOMAIN file.ch_names |-> Loaded(file.ch_names[i])]]

\* ---- the statements of the notebook, top to bottom ----------------------
\* Cells 29 and 31 in the other order: the components are registered only
\* after the reconstruction was applied and saved.
ProgramExtendLast ==
  << "read_raw", "set_bads", "plot_layout", "plot_raw", "plot_montage",
     "pick_types_11", "filter",
     "ICA", "pick_types_13", "fit",
     "plot_components", "plot_properties_17",
     "pick_types_19", "create_eog_epochs", "average",
     "find_bads_eog", "plot_scores", "plot_sources", "plot_properties_25",
     "plot_overlay",
     "copy", "apply", "save",
     "extend",
     "plot_ica" >>

Program ==
  << "read_raw", "set_bads", "plot_layout", "plot_raw", "plot_montage",
     "pick_types_11", "filter",
     "ICA", "pick_types_13", "fit",
     "plot_components", "plot_properties_17",
     "pick_types_19", "create_eog_epochs", "average",
     "find_bads_eog", "plot_scores", "plot_sources", "plot_properties_25",
     "plot_overlay",
     "extend",
     "copy", "apply", "save",
     "plot_ica" >>

\* Names a statement reads from the kernel namespace; a name that is not
\* bound there makes the statement raise NameError.
Needs(stmt) ==
  CASE stmt = "read_raw"           -> {}
    [] stmt = "set_bads"           -> {"data_raw"}
    [] stmt = "plot_layout"        -> {"data_raw"}
    [] stmt = "plot_raw"           -> {"data_raw"}
    [] stmt = "plot_montage"       -> {}
    [] stmt = "pick_types_11"      -> {"data_raw"}
    [] stmt = "filter"             -> {"data_raw", "picks"}
    [] stmt = "ICA"                -> {}
    [] stmt = "pick_types_13"      -> {"data_filtered"}
    [] stmt = "fit"                -> {"ica", "data_filtered", "picks"}
    [] stmt = "plot_components"    -> {"ica"}
    [] stmt = "plot_properties_17" -> {"ica", "data_filtered"}
    [] stmt = "pick_types_19"      -> {"data_filtered"}
    [] stmt = "create_eog_epochs"  -> {"data_filtered", "picks"}
    [] stmt = "average"            -> {"eog_epochs"}
    [] stmt = "find_bads_eog"      -> {"ica", "eog_epochs"}
    [] stmt = "plot_scores"        -> {"ica", "scores", "eog_inds"}
    [] stmt = "plot_sources"       -> {"ica", "eog_average"}
    [] stmt = "plot_properties_25" -> {"ica", "eog_epochs", "eog_inds"}
    [] stmt = "plot_overlay"       -> {"ica", "eog_average", "eog_inds"}
    [] stmt = "extend"             -> {"ica", "eog_inds"}
    [] stmt = "copy"               -> {"data_filtered"}
    [] stmt = "apply"              -> {"ica", "data_ica"}
    [] stmt = "save"               -> {"data_ica"}
    [] stmt = "plot_ica"           -> {"data_ica"}

\* Statements that only draw: they bind no name the pipeline reads and
\* change no object.
VisStmts == {"plot_layout", "plot_montage", "plot_components",
             "plot_properties_17", "plot_scores", "plot_sources",
             "plot_properties_25", "plot_overlay"}

\* ---- the library calls, as far as the notebook depends on them ----------
Idx(n) == [i \in 1..n |-> i]

InSeq(x, s) == \E k \in DOMAIN s : s[k] = x

\* pick_typesNoExclude is pick_types called with exclude=[]: bad channels
\* are picked like the others.
\* pick_types(info, meg, eeg, eog, stim): indices of the channels of the
\* wanted types, in channel order, without the channels in info['bads']
\* (exclude='bads' is the default).  The recording has no MEG channels.
pick_typesNoExclude(info, meg, eeg, eog, stim) ==
  SelectSeq(Idx(Len(info.ch_names)),
            LAMBDA i : \/ eeg /\ info.ch_names[i].type = "eeg"
                       \/ eog /\ info.ch_names[i].type = "eog"
                       \/ stim /\ info.ch_names[i].type = "stim"
                       \/ meg /\ info.ch_names[i].type = "meg")

pick_types(info, meg, eeg, eog, stim) ==
  SelectSeq(Idx(Len(info.ch_names)),
            LAMBDA i : /\ info.ch_names[i] \notin info.bads
                       /\ \/ eeg /\ info.ch_names[i].type = "eeg"
                          \/ eog /\ info.ch_names[i].type = "eog"
                          \/ stim /\ info.ch_names[i].type = "stim"
                          \/ meg /\ info.ch_names[i].type = "meg")

Filtered(row) == [row EXCEPT !.filt = @ + 1]

\* raw.filter(l_freq, h_freq, picks=pk): filters the rows pk of raw in place.
filter(raw, pk) ==
  [raw EXCEPT !.data = [i \in DOMAIN raw.data |->
                          IF InSeq(i, pk) THEN Filtered(raw.data[i])
                          ELSE raw.data[i]]]

NoICA == [n_components |-> 0, fitted |-> FALSE, ch_names |-> <<>>,
          fit_data |-> <<>>, exclude |-> <<>>]

\* ICA(n_components=n, method='fastica', random_state=1312): an unfitted
\* decomposition with no sources marked for exclusion.
ICA(n) == [NoICA EXCEPT !.n_components = n]

\* ica.fit(raw, picks=pk, decim=3): the decomposition is estimated from the
\* rows pk of raw; raw is not changed.
fit(obj, raw, pk) ==
  [obj EXCEPT !.fitted = TRUE,
              !.ch_names = [k \in DOMAIN pk |-> raw.info.ch_names[pk[k]]],
              !.fit_data = [k \in DOMAIN pk |-> raw.data[pk[k]]]]

\* ica.apply(raw): the rows of the channels the ICA was fitted on are
\* rebuilt without the components in ica.exclude; other rows are not touched.
Zeroed(obj) == Range(obj.exclude)

apply(obj, raw) ==
  [raw EXCEPT !.data = [i \in DOMAIN raw.data |->
                          IF InSeq(raw.info.ch_names[i], obj.ch_names)
                          THEN [raw.data[i] EXCEPT !.ica = Append(@, Zeroed(obj))]
                          ELSE raw.data[i]]]

\* raw.copy(): a new object with the same contents.
copy(raw) == raw

\* raw.save(fname, overwrite=ow): refuses an existing file unless ow.
save(file, raw, ow) ==
  IF file.exists /\ ~ow
  THEN [ok |-> FALSE, file |-> file]
  ELSE [ok |-> TRUE, file |-> [exists |-> TRUE, raw |-> raw]]

\* What find_bads_eog can return: a list of component indices, none twice,
\* in any order.
EogIndsChoices ==
  UNION { { s \in [1..k -> 0..(EogCandidates - 1)] :
              /\ \A i \in 1..k : s[i] < n_components
              /\ \A i, j \in 1..k : i # j => s[i] # s[j] } : k \in 0..MaxEogInds }

\* The test recording.  One sample of the model stands for one epoch window
\* of the recording, and the EOG channel has a blink in every window.
\* Ptp(row, t) is the peak-to-peak amplitude of a row in window t, in units
\* of 1e-4 V: the blink is large on the EOG channel; in odd windows the EEG
\* channel before EEG 053 carries an artifact, in even windows EEG 053 does;
\* the EEG channel two before EEG 053 is exactly at 2e-4; the rest are small.
Ptp(row, t) ==
  CASE row.src.type = "eog" -> 3
    [] row.src.type = "eeg" /\ row.src.num = BadEEG - (t % 2) -> 3
    [] row.src.type = "eeg" /\ row.src.num = BadEEG - 2 -> 2
    [] OTHER -> 1

\* The events find_eog_events detects on the reference channel ch_name: the
\* windows in which that channel has a blink.
EogEvents(raw, ch_name) ==
  SelectSeq(Idx(raw.n_times),
            LAMBDA t : \E i \in DOMAIN raw.data :
                         /\ raw.info.ch_names[i] = ch_name
                         /\ Ptp(raw.data[i], t) > 2)

\* An epoch is good unless a channel of a type named in reject has a
\* peak-to-peak amplitude greater than the threshold for that type.
IsGood(ch_names, ptp, rej) ==
  \A k \in DOMAIN ch_names :
    ch_names[k].type \in DOMAIN rej => ~(ptp[k] > rej[ch_names[k].type])

NoEpochs == [made |-> FALSE, ch_names |-> <<>>, ref |-> Ch("none", 0),
             n_events |-> 0, kept |-> <<>>, dropped |-> 0]

\* create_eog_epochs(raw, ch_name=..., picks=pk, reject=rej): one epoch of
\* the channels pk around every event of the reference channel; the epochs
\* that are not good are dropped.
create_eog_epochs(raw, ch_name, pk, rej) ==
  LET chs    == [k \in DOMAIN pk |-> raw.info.ch_names[pk[k]]]
      events == EogEvents(raw, ch_name)
      epochs == [e \in DOMAIN events |->
                   [t |-> events[e],
                    ptp |-> [k \in DOMAIN pk |-> Ptp(raw.data[pk[k]], events[e])]]]
      good   == SelectSeq(epochs, LAMBDA ep : IsGood(chs, ep.ptp, rej))
  IN [made |-> TRUE, ch_names |-> chs, ref |-> ch_name,
      n_events |-> Len(events), kept |-> good,
      dropped |-> Len(epochs) - Len(good)]

\* The sets of channels a user can click in one interactive plot.
ToggleChoices(raw) ==
  { T \in SUBSET Range(raw.info.ch_names) : Cardinality(T) <= MaxToggles }

\* ---- the calls as the notebook makes them --------------------------------
\* cell 11 with eog=True: the EOG channel is filtered as well.
Cell11PicksEog(info) == pick_types(info, FALSE, TRUE, TRUE, FALSE)
Cell11Picks(info) == pick_types(info, FALSE, TRUE, FALSE, FALSE)
\* cell 13 with eog=True: the EOG channel enters the decomposition.
Cell13PicksEog(info) == pick_types(info, FALSE, TRUE, TRUE, FALSE)
Cell13Picks(info) == pick_types(info, FALSE, TRUE, FALSE, FALSE)
Cell19Picks(info) == pick_types(info, FALSE, TRUE, TRUE, FALSE)
\* cell 19 with the threshold mistyped as 2e-3.
rejectLoose == [eeg |-> 20]
\* cell 19: reject = {'eeg': 2e-4}, in units of 1e-4 V
reject == [eeg |-> 2]
\* cell 29 registering only the indices that are not registered yet, by
\* assignment: ica.exclude = [i for i in eog_inds if i not in ica.exclude]
Cell29ExtendNew(obj, inds) ==
  [obj EXCEPT !.exclude = SelectSeq(inds, LAMBDA i : ~InSeq(i, obj.exclude))]
\* cell 29: ica.exclude.extend(eog_inds)
Cell29Extend(obj, inds) == [obj EXCEPT !.exclude = @ \o inds]
\* cell 31 copying only the EEG channels of the recording.
Cell31CopyEegOnly(raw) ==
  [info |-> [ch_names |-> SelectSeq(raw.info.ch_names, LAMBDA c : c.type = "eeg"),
             bads |-> raw.info.bads],
   n_times |-> raw.n_times,
   data |-> SelectSeq(raw.data, LAMBDA r : r.src.type = "eeg")]
Cell31Copy(raw) == copy(raw)
\* cell 31 without overwrite=True.
Cell31SaveNoOverwrite(file, raw) == save(file, raw, FALSE)
Cell31Save(file, raw) == save(file, raw, TRUE)

\* ---- the run ---------------------------------------------------------------
OldRaw == [EmptyRaw EXCEPT !.n_times = MaxTimes + 1]
InitialOutFile(e) == [exists |-> e, raw |-> IF e THEN OldRaw ELSE EmptyRaw]

Init ==
  /\ pc = 1
  /\ raised = ""
  /\ log = <<>>
  /\ names = {}
  /\ heap = <<>>
  /\ data_raw = 0
  /\ data_filtered = 0
  /\ data_ica = 0
  /\ picks = <<>>
  /\ ica = NoICA
  /\ eog_epochs = NoEpochs
  /\ eog_inds = <<>>
  /\ raw_file \in { [ch_names |-> FileChNames, n_times |-> n] : n \in 1..MaxTimes }
  /\ existed \in BOOLEAN
  /\ out_file = InitialOutFile(existed)

Running == raised = "" /\ pc \in DOMAIN Program
At(stmt) == Running /\ Program[pc] = stmt
Bound(stmt) == Needs(stmt) \subseteq names

\* The statement completes: the run moves to the next statement.
Advance ==
  /\ pc' = pc + 1
  /\ log' = Append(log, Program[pc])
  /\ raised' = raised

\* The statement raises: the run stops there; nothing else changes.
Raise ==
  /\ raised' = Program[pc]
  /\ UNCHANGED <<pc, log, names, heap, data_raw, data_filtered, data_ica,
                 picks, ica, eog_epochs, eog_inds, raw_file, out_file, existed>>

\* cell 3: data_raw = read_raw(raw_fn, preload=True)
ReadRaw ==
  /\ At("read_raw")
  /\ \/ /\ heap' = Append(heap, read_raw(raw_file))
        /\ data_raw' = Len(heap) + 1
        /\ names' = names \cup {"data_raw"}
        /\ Advance
        /\ UNCHANGED <<data_filtered, data_ica, picks, ica, eog_epochs,
                       eog_inds, raw_file, out_file, existed>>
     \/ Raise

\* cell 5: data_raw.info['bads'] = ['EEG 053']
SetBads ==
  /\ At("set_bads")
  /\ IF Bound("set_bads")
     THEN /\ heap' = [heap EXCEPT ![data_raw].info.bads = {Ch("eeg", BadEEG)}]
          /\ Advance
          /\ UNCHANGED <<names, data_raw, data_filtered, data_ica, picks, ica,
                         eog_epochs, eog_inds, raw_file, out_file, existed>>
     ELSE Raise

\* cells 7 and 33: raw.plot() opens the interactive browser; every channel
\* the user clicks is toggled in raw.info['bads'].
PlotOf(ref) ==
  /\ \/ /\ ref \in DOMAIN heap
        /\ \E T \in ToggleChoices(heap[ref]) :
             heap' = [heap EXCEPT ![ref].info.bads = (@ \ T) \cup (T \ @)]
        /\ Advance
        /\ UNCHANGED <<names, data_raw, data_filtered, data_ica, picks, ica,
                       eog_epochs, eog_inds, raw_file, out_file, existed>>
     \/ Raise

PlotRaw == At("plot_raw") /\ PlotOf(IF Bound("plot_raw") THEN data_raw ELSE 0)

PlotIca == At("plot_ica") /\ PlotOf(IF Bound("plot_ica") THEN data_ica ELSE 0)

\* cells 5, 9, 15, 17, 21, 23, 25, 27: drawing calls
Visualize ==
  /\ Running
  /\ Program[pc] \in VisStmts
  /\ \/ /\ Bound(Program[pc])
        /\ Advance
        /\ UNCHANGED <<names, heap, data_raw, data_filtered, data_ica, picks,
                       ica, eog_epochs, eog_inds, raw_file, out_file, existed>>
     \/ Raise

\* cells 11, 13, 19: picks = pick_types(<raw>.info, ...)
PickTypes ==
  /\ Running
  /\ Program[pc] \in {"pick_types_11", "pick_types_13", "pick_types_19"}
  /\ \/ /\ Bound(Program[pc])
        /\ picks' = CASE Program[pc] = "pick_types_11" -> Cell11Picks(heap[data_raw].info)
                      [] Program[pc] = "pick_types_13" -> Cell13Picks(heap[data_filtered].info)
                      [] Program[pc] = "pick_types_19" -> Cell19Picks(heap[data_filtered].info)
        /\ names' = names \cup {"picks"}
        /\ Advance
        /\ UNCHANGED <<heap, data_raw, data_filtered, data_ica, ica,
                       eog_epochs, eog_inds, raw_file, out_file, existed>>
     \/ Raise

\* cell 11 filtering a copy: data_filtered = data_raw.copy().filter(...)
FilterOnCopy ==
  /\ At("filter")
  /\ \/ /\ Bound("filter")
        /\ heap' = Append(heap, filter(copy(heap[data_raw]), picks))
        /\ data_filtered' = Len(heap) + 1
        /\ names' = names \cup {"data_filtered"}
        /\ Advance
        /\ UNCHANGED <<data_raw, data_ica, picks, ica, eog_epochs, eog_inds,
                       raw_file, out_file, existed>>
     \/ Raise

\* cell 11: data_filtered = data_raw.filter(0.5, 40, picks=picks, method='fir')
\* filter works in place and returns the object it was called on.
Filter ==
  /\ At("filter")
  /\ \/ /\ Bound("filter")
        /\ heap' = [heap EXCEPT ![data_raw] = filter(@, picks)]
        /\ data_filtered' = data_raw
        /\ names' = names \cup {"data_filtered"}
        /\ Advance
        /\ UNCHANGED <<data_raw, data_ica, picks, ica, eog_epochs, eog_inds,
                       raw_file, out_file, existed>>
     \/ Raise

\* cell 13: ica = ICA(n_components=n_components, method=method, random_state=1312)
MakeICA ==
  /\ At("ICA")
  /\ \/ /\ ica' = ICA(n_components)
        /\ names' = names \cup {"ica"}
        /\ Advance
        /\ UNCHANGED <<heap, data_raw, data_filtered, data_ica, picks,
                       eog_epochs, eog_inds, raw_file, out_file, existed>>
     \/ Raise

\* cell 13: ica.fit(data_filtered, picks=picks, decim=decim)
Fit ==
  /\ At("fit")
  /\ \/ /\ Bound("fit")
        /\ ica' = fit(ica, heap[data_filtered], picks)
        /\ Advance
        /\ UNCHANGED <<names, heap, data_raw, data_filtered, data_ica, picks,
                       eog_epochs, eog_inds, raw_file, out_file, existed>>
     \/ Raise

\* cell 19: eog_epochs = create_eog_epochs(data_filtered, ch_name='EOG 061',
\*                                         picks=picks, reject=reject)
CreateEogEpochs ==
  /\ At("create_eog_epochs")
  /\ \/ /\ Bound("create_eog_epochs")
        /\ InSeq(Ch("eog", EogNum), heap[data_filtered].info.ch_names)
        /\ eog_epochs' = create_eog_epochs(heap[data_filtered], Ch("eog", EogNum),
                                            picks, reject)
        /\ names' = names \cup {"eog_epochs"}
        /\ Advance
        /\ UNCHANGED <<heap, data_raw, data_filtered, data_ica, picks, ica,
                       eog_inds, raw_file, out_file, existed>>
     \/ Raise

\* cell 19: eog_average = eog_epochs.average()
Average ==
  /\ At("average")
  /\ \/ /\ Bound("average")
        /\ names' = names \cup {"eog_average"}
        /\ Advance
        /\ UNCHANGED <<heap, data_raw, data_filtered, data_ica, picks, ica,
                       eog_epochs, eog_inds, raw_file, out_file, existed>>
     \/ Raise

\* cell 21: eog_inds, scores = ica.find_bads_eog(eog_epochs)
FindBadsEog ==
  /\ At("find_bads_eog")
  /\ \/ /\ Bound("find_bads_eog")
        /\ ica.fitted
        /\ eog_inds' \in EogIndsChoices
        /\ names' = names \cup {"eog_inds", "scores"}
        /\ Advance
        /\ UNCHANGED <<heap, data_raw, data_filtered, data_ica, picks, ica,
                       eog_epochs, raw_file, out_file, existed>>
     \/ Raise

\* cell 29 removing the components at once: ica.apply(data_filtered, exclude=eog_inds)
ExtendAndApply ==
  /\ At("extend")
  /\ IF Bound("extend") /\ "data_filtered" \in names
     THEN /\ ica' = [ica EXCEPT !.exclude = @ \o eog_inds]
          /\ heap' = [heap EXCEPT ![data_filtered] = apply(ica', @)]
          /\ Advance
          /\ UNCHANGED <<names, data_raw, data_filtered, data_ica, picks,
                         eog_epochs, eog_inds, raw_file, out_file, existed>>
     ELSE Raise

\* cell 29 registering one index only: ica.exclude.append(eog_inds[0])
ExtendFirstOnly ==
  /\ At("extend")
  /\ IF Bound("extend") /\ Len(eog_inds) > 0
     THEN /\ ica' = [ica EXCEPT !.exclude = Append(@, eog_inds[1])]
          /\ Advance
          /\ UNCHANGED <<names, heap, data_raw, data_filtered, data_ica, picks,
                         eog_epochs, eog_inds, raw_file, out_file, existed>>
     ELSE Raise

\* cell 29: ica.exclude.extend(eog_inds)
Extend ==
  /\ At("extend")
  /\ IF Bound("extend")
     THEN /\ ica' = Cell29Extend(ica, eog_inds)
          /\ Advance
          /\ UNCHANGED <<names, heap, data_raw, data_filtered, data_ica, picks,
                         eog_epochs, eog_inds, raw_file, out_file, existed>>
     ELSE Raise

\* cell 31 without the copy: data_ica = data_filtered
CopyAlias ==
  /\ At("copy")
  /\ IF Bound("copy")
     THEN /\ data_ica' = data_filtered
          /\ names' = names \cup {"data_ica"}
          /\ Advance
          /\ UNCHANGED <<heap, data_raw, data_filtered, picks, ica, eog_epochs,
                         eog_inds, raw_file, out_file, existed>>
     ELSE Raise

\* cell 31: data_ica = data_filtered.copy()
Copy ==
  /\ At("copy")
  /\ IF Bound("copy")
     THEN /\ heap' = Append(heap, Cell31Copy(heap[data_filtered]))
          /\ data_ica' = Len(heap) + 1
          /\ names' = names \cup {"data_ica"}
          /\ Advance
          /\ UNCHANGED <<data_raw, data_filtered, picks, ica, eog_epochs,
                         eog_inds, raw_file, out_file, existed>>
     ELSE Raise

\* cell 31 saving in a finally block: the file is written although apply raised.
ApplySaveAnyway ==
  /\ At("apply")
  /\ \/ /\ Bound("apply")
        /\ ica.fitted
        /\ heap' = [heap EXCEPT ![data_ica] = apply(ica, @)]
        /\ Advance
        /\ UNCHANGED <<names, data_raw, data_filtered, data_ica, picks, ica,
                       eog_epochs, eog_inds, raw_file, out_file, existed>>
     \/ /\ Bound("apply")
        /\ raised' = Program[pc]
        /\ out_file' = Cell31Save(out_file, heap[data_ica]).file
        /\ UNCHANGED <<pc, log, names, heap, data_raw, data_filtered, data_ica,
                       picks, ica, eog_epochs, eog_inds, raw_file, existed>>

\* cell 31: ica.apply(data_ica)
Apply ==
  /\ At("apply")
  /\ \/ /\ Bound("apply")
        /\ ica.fitted
        /\ heap' = [heap EXCEPT ![data_ica] = apply(ica, @)]
        /\ Advance
        /\ UNCHANGED <<names, data_raw, data_filtered, data_ica, picks, ica,
                       eog_epochs, eog_inds, raw_file, out_file, existed>>
     \/ Raise

\* cell 31: data_ica.save(ica_fn, overwrite=True)
Save ==
  /\ At("save")
  /\ IF Bound("save") /\ Cell31Save(out_file, heap[data_ica]).ok
     THEN /\ out_file' = Cell31Save(out_file, heap[data_ica]).file
          /\ Advance
          /\ UNCHANGED <<names, heap, data_raw, data_filtered, data_ica, picks,
                         ica, eog_epochs, eog_inds, raw_file, existed>>
     ELSE Raise

Next ==
  \/ ReadRaw
  \/ SetBads
  \/ PlotRaw
  \/ Visualize
  \/ PickTypes
  \/ Filter
  \/ MakeICA
  \/ Fit
  \/ CreateEogEpochs
  \/ Average
  \/ FindBadsEog
  \/ Extend
  \/ Copy
  \/ Apply
  \/ Save
  \/ PlotIca

Spec == Init /\ [][Next]_vars

\* ---- cell-by-cell execution: cell 29 run again -----------------------------
ExtendRuns == Len(SelectSeq(log, LAMBDA stmt : stmt = "extend"))

\* The user runs cell 29 once more before going on with cell 31.
RerunCell29 ==
  /\ At("copy")
  /\ ExtendRuns >= 1
  /\ ExtendRuns <= MaxReruns
  /\ Bound("extend")
  /\ ica' = Cell29Extend(ica, eog_inds)
  /\ log' = Append(log, "extend")
  /\ UNCHANGED <<pc, raised, names, heap, data_raw, data_filtered, data_ica,
                 picks, eog_epochs, eog_inds, raw_file, out_file, existed>>

NextRerun == Next \/ RerunCell29

SpecRerun == Init /\ [][NextRerun]_vars

\* ---- properties ------------------------------------------------------------
InLog(stmt) == InSeq(stmt, log)
Finished == raised = "" /\ pc = Len(Program) + 1
IsPrefix(s, t) == Len(s) <= Len(t) /\ \A i \in DOMAIN s : s[i] = t[i]

PipelineOrder ==
  << "read_raw", "set_bads", "filter", "fit", "create_eog_epochs",
     "find_bads_eog", "extend", "copy", "apply", "save" >>

PipelineLog == SelectSeq(log, LAMBDA stmt : InSeq(stmt, PipelineOrder))

\* C1: in a top-to-bottom run the pipeline steps complete in the one order
\* load, mark bad channels, filter, fit, create EOG epochs, find_bads_eog,
\* extend ica.exclude, copy, apply, save: what has completed so far is always
\* an initial part of that order (no step skipped, repeated or out of place),
\* and a run that reaches the end has completed all of them.
C1_FixedOrder ==
  /\ IsPrefix(PipelineLog, PipelineOrder)
  /\ Finished => PipelineLog = PipelineOrder

C1_Witness == Finished /\ PipelineLog = PipelineOrder /\ Len(eog_inds) > 0

\* Rows of a recording that the bandpass filter of cell 11 was asked to filter.
FilterPicks == Cell11Picks(heap[data_raw].info)

C2_InPlace ==
  InLog("filter") =>
    /\ data_filtered = data_raw
    /\ \A o \in DOMAIN heap : \A i \in DOMAIN heap[o].data :
         InSeq(i, FilterPicks) => heap[o].data[i].filt = 1

C2_ApplyStep ==
  (At("apply") /\ Bound("apply")) =>
    /\ data_ica # data_filtered
    /\ heap'[data_filtered] = heap[data_filtered]
    /\ heap'[data_raw] = heap[data_raw]

\* C2: filtering works in place and the ICA works on a copy: once the filter
\* has run, data_filtered and data_raw are the same object and no object in
\* memory holds an unfiltered row of a filtered channel; the step ica.apply
\* changes no object other than data_ica.
C2_InPlaceThenCopy == [](C2_InPlace) /\ [][C2_ApplyStep]_vars

C2_Witness ==
  /\ InLog("apply")
  /\ data_filtered = data_raw
  /\ Len(eog_inds) > 0
  /\ heap[data_ica].data # heap[data_filtered].data
  /\ \E i \in DOMAIN heap[data_raw].data : heap[data_raw].data[i].filt = 1

BeforeApply == At("apply") /\ Bound("apply")

C4_Step ==
  /\ (At("extend") /\ Bound("extend")) =>
       /\ heap' = heap
       /\ out_file' = out_file
       /\ [ica' EXCEPT !.exclude = ica.exclude] = ica
  /\ (At("copy") /\ Bound("copy")) =>
       /\ \A o \in DOMAIN heap : heap'[o] = heap[o]
       /\ ica' = ica

\* C4: registering components removes nothing: the step
\* ica.exclude.extend(eog_inds) changes only the exclude list of the ICA
\* object, and up to the call of ica.apply no recording object that exists
\* changes.
C4_ExtendRemovesNothing == [][C4_Step]_vars

C4_Witness ==
  /\ BeforeApply
  /\ InLog("extend")
  /\ Len(eog_inds) > 0
  /\ ica.exclude = eog_inds
  /\ \A o \in DOMAIN heap : \A i \in DOMAIN heap[o].data : heap[o].data[i].ica = <<>>

\* C5: the ICA starts with no sources marked for exclusion; after cell 29
\* the set of indices in ica.exclude is the set eog_inds; and the rows
\* ica.apply rebuilt in data_ica are rebuilt without exactly that set.
C5_ApplyRemovesEogInds ==
  /\ (InLog("ICA") /\ ~InLog("extend")) => ica.exclude = <<>>
  /\ InLog("extend") => Range(ica.exclude) = Range(eog_inds)
  /\ InLog("apply") =>
       \A i \in DOMAIN heap[data_ica].data :
         heap[data_ica].data[i].ica =
           IF InSeq(heap[data_ica].info.ch_names[i], ica.ch_names)
           THEN << Range(eog_inds) >>
           ELSE <<>>

C5_Witness ==
  /\ InLog("apply")
  /\ Len(eog_inds) = MaxEogInds
  /\ \E i \in DOMAIN heap[data_ica].data :
       heap[data_ica].data[i].ica = << Range(eog_inds) >>

C6_FilterStep ==
  (At("filter") /\ Bound("filter")) =>
    \A i \in DOMAIN heap[data_raw].data :
      /\ heap[data_raw].info.ch_names[i].type # "eeg" => ~InSeq(i, picks)
      /\ ~InSeq(i, picks) => heap'[data_raw].data[i] = heap[data_raw].data[i]

\* C6: the bandpass filter of cell 11 changes only rows in picks; no EOG or
\* stimulus channel is in picks, so the rows of EOG 061 and of every stimulus
\* channel are the same after the filter call as before it.
C6_FilterOnlyPicks == [][C6_FilterStep]_vars

C6_Witness ==
  /\ InLog("filter")
  /\ \E i \in DOMAIN heap[data_raw].data :
       /\ heap[data_raw].info.ch_names[i] = Ch("eog", EogNum)
       /\ heap[data_raw].data[i] = Loaded(Ch("eog", EogNum))
  /\ \E i \in DOMAIN heap[data_raw].data :
       /\ heap[data_raw].info.ch_names[i].type = "eeg"
       /\ heap[data_raw].data[i].filt = 1
  /\ \E i \in DOMAIN heap[data_raw].data :
       /\ heap[data_raw].info.ch_names[i].type = "stim"
       /\ heap[data_raw].data[i].filt = 0

\* Channels of the recording whose rows have been bandpass filtered.
FilteredChannels ==
  { heap[data_filtered].info.ch_names[i] :
      i \in { j \in DOMAIN heap[data_filtered].data :
                heap[data_filtered].data[j].filt > 0 } }

\* C7: the ICA is fitted with 25 components, and the channels it is fitted
\* on are exactly the channels the bandpass filter of cell 11 filtered: every
\* row that entered the fit was a filtered row.
C7_FitOnFilteredSubset ==
  ica.fitted =>
    /\ ica.n_components = 25
    /\ Range(ica.ch_names) = FilteredChannels
    /\ \A k \in DOMAIN ica.fit_data : ica.fit_data[k].filt = 1

C7_Witness ==
  /\ ica.fitted
  /\ Len(ica.ch_names) = NumEEG - 2
  /\ Range(ica.ch_names) = FilteredChannels

\* C8: the save of cell 31 does not fail on an existing output file, and
\* once it has run the file exists and holds the channels and samples of
\* data_ica, whether or not the file existed before.
C8_SaveOverwrites ==
  /\ raised # "save"
  /\ InLog("save") =>
       /\ out_file.exists
       /\ out_file.raw.info.ch_names = heap[data_ica].info.ch_names
       /\ out_file.raw.data = heap[data_ica].data

C8_Witness ==
  /\ existed
  /\ InLog("save")
  /\ out_file.raw.data = heap[data_ica].data
  /\ out_file.raw # OldRaw

PipelineCalls == {"read_raw", "filter", "fit", "create_eog_epochs",
                  "find_bads_eog", "apply"}

C9_Stopped ==
  raised # "" =>
    /\ pc \in DOMAIN Program
    /\ raised = Program[pc]
    /\ ~InLog(raised)
    /\ raised \in PipelineCalls => out_file = InitialOutFile(existed)

\* C9: a library call that raises ends the run at that statement: the
\* statement is not among the completed ones, no statement runs afterwards
\* (nothing is retried), and when the call is one of read_raw, filter, fit,
\* create_eog_epochs, find_bads_eog, apply the output file is as it was
\* before the run.
C9_NoRecovery == [](C9_Stopped) /\ [][raised = ""]_vars

C9_Witness ==
  /\ raised = "apply"
  /\ existed
  /\ out_file = InitialOutFile(TRUE)
  /\ Len(eog_inds) > 0

SameShape(raw) ==
  /\ raw.info.ch_names = raw_file.ch_names
  /\ raw.n_times = raw_file.n_times
  /\ Len(raw.data) = Len(raw_file.ch_names)
  /\ \A i \in DOMAIN raw.data : raw.data[i].src = raw_file.ch_names[i]

\* C10: every recording object of the run, and the saved file, has the
\* channel list of the input file, in the same order, one row per channel,
\* and the number of samples of the input file.
C10_ShapePreserved ==
  /\ \A o \in DOMAIN heap : SameShape(heap[o])
  /\ InLog("save") => SameShape(out_file.raw)

C10_Witness ==
  /\ InLog("save")
  /\ SameShape(out_file.raw)
  /\ Len(heap) = 2
  /\ Len(out_file.raw.info.ch_names) = NumSTI + NumEEG + 1

\* Rows of data_filtered that are EEG channels of the epochs.
EpochEegRows ==
  { i \in DOMAIN heap[data_filtered].data :
      /\ heap[data_filtered].info.ch_names[i].type = "eeg"
      /\ InSeq(heap[data_filtered].info.ch_names[i], eog_epochs.ch_names) }

\* Events in whose window a picked EEG channel exceeds 2e-4.
RejectedEvents ==
  { t \in 1..eog_epochs.n_events :
      \E i \in EpochEegRows : Ptp(heap[data_filtered].data[i], t) > 2 }

KeptEvents == { eog_epochs.kept[e].t : e \in DOMAIN eog_epochs.kept }

\* C11: the epochs are cut around the events of EOG 061; in every kept epoch
\* no EEG channel of the epoch is above 2e-4 peak to peak; every event in
\* whose window a picked EEG channel is above 2e-4 is dropped; and the number
\* of kept epochs is the number of detected events minus the number rejected.
C11_KeptEpochsBelowThreshold ==
  eog_epochs.made =>
    /\ eog_epochs.ref = Ch("eog", EogNum)
    /\ \A e \in DOMAIN eog_epochs.kept :
         /\ eog_epochs.kept[e].t \in 1..eog_epochs.n_events
         /\ \A k \in DOMAIN eog_epochs.ch_names :
              eog_epochs.ch_names[k].type = "eeg" => eog_epochs.kept[e].ptp[k] <= 2
    /\ KeptEvents \cap RejectedEvents = {}
    /\ Len(eog_epochs.kept) = eog_epochs.n_events - Cardinality(RejectedEvents)
    /\ eog_epochs.dropped = Cardinality(RejectedEvents)

C11_Witness ==
  /\ eog_epochs.made
  /\ eog_epochs.n_events = 2
  /\ Len(eog_epochs.kept) = 1
  /\ Cardinality(RejectedEvents) = 1
  /\ \E k \in DOMAIN eog_epochs.ch_names :
       /\ eog_epochs.ch_names[k].type = "eeg"
       /\ eog_epochs.kept[1].ptp[k] = 2
  /\ \E i \in DOMAIN heap[data_filtered].data :
       /\ heap[data_filtered].info.ch_names[i] \in heap[data_filtered].info.bads
       /\ heap[data_filtered].info.ch_names[i].type = "eeg"
       /\ Ptp(heap[data_filtered].data[i], eog_epochs.kept[1].t) > 2

\* EEG channels that are marked bad when cells 11 and 13 run.
BadEegRows ==
  { i \in DOMAIN heap[data_raw].data :
      /\ heap[data_raw].info.ch_names[i].type = "eeg"
      /\ heap[data_raw].info.ch_names[i] \in heap[data_raw].info.bads }

\* C12: an EEG channel that is in the bad-channel list when cells 11 and 13
\* run is not filtered, is not among the channels the ICA is fitted on, is
\* not changed by ica.apply, and its row in the saved file is the row as
\* loaded.
C12_BadChannelsUntouched ==
  InLog("pick_types_11") =>
    \A i \in BadEegRows :
      /\ heap[data_raw].data[i] = Loaded(raw_file.ch_names[i])
      /\ ica.fitted => ~InSeq(raw_file.ch_names[i], ica.ch_names)
      /\ InLog("copy") => heap[data_ica].data[i] = Loaded(raw_file.ch_names[i])
      /\ InLog("save") => out_file.raw.data[i] = Loaded(raw_file.ch_names[i])

C12_Witness ==
  /\ InLog("save")
  /\ Cardinality(BadEegRows) = 2
  /\ Len(eog_inds) > 0
  /\ \A i \in BadEegRows : out_file.raw.data[i] = Loaded(raw_file.ch_names[i])
  /\ \E i \in DOMAIN out_file.raw.data :
       /\ out_file.raw.data[i].filt = 1
       /\ out_file.raw.data[i].ica = << Range(eog_inds) >>

\* C13: however often cell 29 has run, the set of indices in ica.exclude is
\* the set eog_inds, while the list holds the indices once per run; the rows
\* ica.apply rebuilt are rebuilt without exactly the set eog_inds, as after a
\* single run of cell 29.
C13_RerunSameSet ==
  /\ InLog("extend") =>
       /\ Range(ica.exclude) = Range(eog_inds)
       /\ Len(ica.exclude) = ExtendRuns * Len(eog_inds)
  /\ InLog("apply") =>
       \A i \in DOMAIN heap[data_ica].data :
         InSeq(heap[data_ica].info.ch_names[i], ica.ch_names)
           => heap[data_ica].data[i].ica = << Range(eog_inds) >>

C13_Witness ==
  /\ At("save")
  /\ ExtendRuns = 1 + MaxReruns
  /\ Len(eog_inds) = 2
  /\ Len(ica.exclude) > Cardinality(Range(ica.exclude))
  /\ \E i \in DOMAIN heap[data_ica].data :
       heap[data_ica].data[i].ica = << Range(eog_inds) >>

====
